---- MODULE Spec2Model ----
(***************************************************************************)
(* The pomodoro timer of src/server.js: the module-level `timer` object,   *)
(* the four tool handlers (start_timer, stop_timer, edit_timer, get_timer) *)
(* and the completion callback the handlers hand to setTimeout.            *)
(*                                                                         *)
(* Time.  Every millisecond quantity of the program (Date.now(), the       *)
(* durations, the setTimeout delays) is held here in quanta of Quantum     *)
(* milliseconds.  The handlers only ever build durations that are          *)
(* multiples of 1000 ms, so nothing is lost on the durations; the clock is *)
(* read at quantum resolution.  The quantum is what lets the model hold    *)
(* durations beyond 2^31-1 ms, where Node's setTimeout stops honouring the *)
(* requested delay, in the 32-bit integers of the model checker.           *)
(*                                                                         *)
(* Scheduling.  Node runs each handler and each timer callback to          *)
(* completion on one thread, so each is one atomic action.  A timer        *)
(* callback runs in some event-loop turn at or after its due time; calls   *)
(* that arrive first are handled first, so nothing bounds how long after   *)
(* its due time a callback runs.  The clock never runs backwards.          *)
(***************************************************************************)
EXTENDS Integers, FiniteSets, Sequences, TLC

VARIABLES
    timer,      \* the `timer` object of src/server.js:29-35
    now,        \* Date.now(), in quanta
    timeouts,   \* Node's timer list: handle -> [status, due]
    reply,      \* history: the reply of the most recent tool call
    lastMut     \* history: the most recent call that changed the timer, and
                \* the completions that fired since

vars == <<timer, now, timeouts, reply, lastMut>>

-----------------------------------------------------------------------------
(* Units and bounds *)

\* Milliseconds per model time unit (half a second).
Quantum == 1000 \div 2

\* The factors of `minutes * 60000 + seconds * 1000`, in quanta.
MsPerMinute == 60000 \div Quantum
MsPerSecond == 1000 \div Quantum

\* Node's TIMEOUT_MAX (2^31 - 1 ms), in whole quanta.  A duration built by the
\* handlers is a multiple of 1000 ms, so it exceeds 2147483647 ms exactly when
\* its quanta exceed this number.
TIMEOUT_MAX == 2147483647 \div Quantum

\* null / undefined
NULL == -1

MaxSeconds == 2       \* positive seconds arguments range over 1..MaxSeconds
MaxMinutes == 1       \* small minutes arguments range over 1..MaxMinutes
HugeMinutes == 35792  \* the least minutes value whose duration exceeds TIMEOUT_MAX
MaxHandles == 2       \* Timeout objects that can be alive at once
MaxSlack == 2         \* the clock is read up to MaxSlack quanta past a whole minute

Handles == 1..MaxHandles

\* Arguments the schema (non-negative integer, optional) lets through: each of
\* minutes and seconds missing or positive, and both given as 0.
MinutesArgs == {NULL} \cup (1..MaxMinutes) \cup {HugeMinutes}
SecondsArgs == {NULL} \cup (1..MaxSeconds)
Args == {<<0, 0>>} \cup (MinutesArgs \X SecondsArgs)

\* How far the clock moves between two events, and the clock values a run
\* visits: the first MaxSlack quanta after the start, and after one minute.
TickSteps == {1, MsPerMinute}
StartClock == 1
ClockValues ==
    {StartClock + k * MsPerMinute + j : k \in 0..1, j \in 0..MaxSlack}

-----------------------------------------------------------------------------
(* JavaScript helpers *)

Max(a, b) == IF a >= b THEN a ELSE b

\* Truthiness of a value that is null or a number/handle.
Truthy(v) == v # NULL /\ v # 0

\* `x ?? 0`
OrZero(x) == IF x = NULL THEN 0 ELSE x

\* Variant: Math.floor instead of Math.ceil.
CeilSeconds_floor(q) == q \div MsPerSecond

\* Math.ceil(ms / 1000) of a non-negative quantity held in quanta.
CeilSeconds(q) == (q + MsPerSecond - 1) \div MsPerSecond

\* `minutes * 60000 + seconds * 1000` with the `?? 0` defaults.
ToDurationMs(minutes, seconds) ==
    OrZero(minutes) * MsPerMinute + OrZero(seconds) * MsPerSecond

-----------------------------------------------------------------------------
(* Node's timers *)

Inactive == [status |-> "inactive", due |-> 0]

Pending(ts) == {h \in Handles : ts[h].status = "pending"}

\* Variant: the timer stays in the list.
clearTimeout_ignored(ts, ref) == ts

\* clearTimeout(ref): a no-op on null and on a timer that is not pending.
clearTimeout(ts, ref) ==
    IF ref \in Handles THEN [ts EXCEPT ![ref] = Inactive] ELSE ts

\* The delay setTimeout really uses: a delay outside 1..TIMEOUT_MAX becomes 1 ms,
\* which at quantum resolution is the smallest delay there is.
TimeoutDelay(after) ==
    IF after >= 1 /\ after <= TIMEOUT_MAX THEN after ELSE 1

\* Variant: the callback is never scheduled.
setTimeout_dropped(ts, h, after, n) == ts

\* setTimeout(callback, after) at clock n, returning handle h.
setTimeout(ts, h, after, n) ==
    [ts EXCEPT ![h] = [status |-> "pending", due |-> n + TimeoutDelay(after)]]

\* The Timeout object a setTimeout call returns: one that is not in the list.
FreeHandles(ts) == Handles \ Pending(ts)
NewHandle(ts) == CHOOSE h \in FreeHandles(ts) : \A g \in FreeHandles(ts) : h <= g

-----------------------------------------------------------------------------
(* Snapshot *)

\* Variant: the elapsed time taken with its operands swapped.
computeRemaining_swapped(t, n) ==
    IF ~t.isRunning \/ ~Truthy(t.startedAt)
    THEN t.remainingMs
    ELSE Max(t.durationMs - (t.startedAt - n), 0)

\* Variant: the remainder is not floored at 0.
computeRemaining_unclamped(t, n) ==
    IF ~t.isRunning \/ ~Truthy(t.startedAt)
    THEN t.remainingMs
    ELSE t.durationMs - (n - t.startedAt)

computeRemaining(t, n) ==
    IF ~t.isRunning \/ ~Truthy(t.startedAt)
    THEN t.remainingMs
    ELSE Max(t.durationMs - (n - t.startedAt), 0)

Snapshot(t, n) ==
    [isRunning        |-> t.isRunning,
     durationMs       |-> t.durationMs,
     remainingMs      |-> computeRemaining(t, n),
     remainingSeconds |-> CeilSeconds(computeRemaining(t, n))]

\* replyWithTimer(message) at clock n; "" is the absent message.
replyWithTimer(message, t, n) ==
    [message |-> message, snap |-> Snapshot(t, n)]

-----------------------------------------------------------------------------
(* The timer object and its writers *)

InitTimer ==
    [durationMs |-> 0, remainingMs |-> 0, startedAt |-> NULL,
     isRunning |-> FALSE, timeoutRef |-> NULL]

\* Variant: stop_timer without its early return.
NotRunning_unchecked(t) == FALSE

\* `if (!timer.isRunning)` of stop_timer.
NotRunning(t) == ~t.isRunning

\* Variant: a zero duration is let through.
InvalidDuration_negativeOnly(durationMs) == durationMs < 0

\* `if (durationMs <= 0)` of start_timer and edit_timer.
InvalidDuration(durationMs) == durationMs <= 0

\* Variant: the pending completion is left in place.
CancelPending_skipped(ts, ref) == ts

\* `if (timer.timeoutRef) clearTimeout(timer.timeoutRef)`.
CancelPending(ts, ref) == IF Truthy(ref) THEN clearTimeout(ts, ref) ELSE ts

\* Variant: the callback leaves the running flag set.
completion_stillRunning(t) ==
    [t EXCEPT !.remainingMs = 0, !.startedAt = NULL, !.timeoutRef = NULL]

\* Variant: the callback leaves startedAt in place.
completion_keepsStartedAt(t) ==
    [t EXCEPT !.isRunning = FALSE, !.remainingMs = 0, !.timeoutRef = NULL]

\* Variant: the callback leaves remainingMs in place.
completion_keepsRemaining(t) ==
    [t EXCEPT !.isRunning = FALSE, !.startedAt = NULL, !.timeoutRef = NULL]

\* The body of the callback start_timer and edit_timer pass to setTimeout.
completion(t) ==
    [t EXCEPT !.isRunning = FALSE, !.remainingMs = 0,
              !.startedAt = NULL, !.timeoutRef = NULL]

\* Variant: start does not stamp startedAt.
StartedTimer_unstamped(durationMs, n, h) ==
    [durationMs |-> durationMs, remainingMs |-> durationMs, startedAt |-> NULL,
     isRunning |-> TRUE, timeoutRef |-> h]

\* The four assignments of start_timer, and the handle of the new timeout.
StartedTimer(durationMs, n, h) ==
    [durationMs |-> durationMs, remainingMs |-> durationMs, startedAt |-> n,
     isRunning |-> TRUE, timeoutRef |-> h]

\* Variant: stop keeps the stored remainingMs instead of computing it.
StoppedTimer_stale(t, n) ==
    [t EXCEPT !.isRunning = FALSE, !.startedAt = NULL, !.timeoutRef = NULL]

\* The assignments of stop_timer on a running timer.
StoppedTimer(t, n) ==
    [t EXCEPT !.remainingMs = computeRemaining(t, n), !.isRunning = FALSE,
              !.startedAt = NULL, !.timeoutRef = NULL]

\* Variant: edit stamps startedAt whether or not the timer is running.
EditedTimer_alwaysStamped(t, newDurationMs, n, h) ==
    [t EXCEPT !.durationMs = newDurationMs, !.remainingMs = newDurationMs,
              !.startedAt = n, !.timeoutRef = h]

\* Variant: edit sets remainingMs and leaves durationMs as it was.
EditedTimer_keepsDuration(t, newDurationMs, n, h) ==
    [t EXCEPT !.remainingMs = newDurationMs,
              !.startedAt = IF t.isRunning THEN n ELSE NULL,
              !.timeoutRef = h]

\* The assignments of edit_timer; h is the handle of the new timeout when the
\* timer is running, and the handle the timer already holds otherwise.
EditedTimer(t, newDurationMs, n, h) ==
    [t EXCEPT !.durationMs = newDurationMs, !.remainingMs = newDurationMs,
              !.startedAt = IF t.isRunning THEN n ELSE NULL,
              !.timeoutRef = h]

\* The absent snapshot.
NoSnapshot ==
    [isRunning |-> FALSE, durationMs |-> NULL, remainingMs |-> NULL,
     remainingSeconds |-> NULL]

\* History record of a call that changed the timer: what the call was, when
\* it ran, the duration it was asked for (req), the timer it left (dur, rem),
\* the startedAt it found (prev), the timeout it scheduled (handle), and what
\* has fired since. For a stop it also keeps the durationMs and the computed
\* remainder the call found (durBefore, remBefore); jumped tells that a
\* completion ran while the computed remainder was above 0.
Mutation(kind, req, n, t1, prev, h) ==
    [kind |-> kind, req |-> req, at |-> n, dur |-> t1.durationMs,
     rem |-> t1.remainingMs, prev |-> prev, handle |-> h,
     fired |-> 0, stale |-> FALSE, early |-> FALSE,
     durBefore |-> IF kind = "stop" THEN timer.durationMs ELSE NULL,
     remBefore |-> IF kind = "stop" THEN computeRemaining(timer, n) ELSE NULL,
     jumped |-> FALSE]

\* History record of a tool call: the tool, the duration it was asked for
\* (NULL for stop and get), the clock, the completions fired since the last
\* change, whether it found the timer running, whether it changed the timer
\* or the timer list, and the reply r it returned. prevGet is the snapshot of
\* the call before it, kept by get_timer alone.
Call(op, req, n, fired, changed, r) ==
    [op |-> op, req |-> req, at |-> n, fired |-> fired,
     wasRunning |-> timer.isRunning, changed |-> changed,
     message |-> r.message, snap |-> r.snap, prevGet |-> NoSnapshot]

-----------------------------------------------------------------------------
(* Initial state and actions *)

Init ==
    /\ timer = InitTimer
    /\ now = StartClock
    /\ timeouts = [h \in Handles |-> Inactive]
    /\ reply = Call("none", NULL, StartClock, 0, FALSE,
                    replyWithTimer("", InitTimer, StartClock))
    /\ lastMut = Mutation("init", NULL, StartClock, InitTimer, NULL, NULL)

start_timer(minutes, seconds) ==
    LET durationMs == ToDurationMs(minutes, seconds)
        cleared == CancelPending(timeouts, timer.timeoutRef)
        h == NewHandle(cleared)
    IN  IF InvalidDuration(durationMs)
        THEN /\ UNCHANGED <<timer, now, timeouts, lastMut>>
             /\ reply' = Call("start", durationMs, now, lastMut.fired,
                              timer' # timer \/ timeouts' # timeouts,
                              replyWithTimer("Provide a duration greater than 0.",
                                             timer', now))
        ELSE /\ FreeHandles(cleared) # {}
             /\ timeouts' = setTimeout(cleared, h, durationMs, now)
             /\ timer' = StartedTimer(durationMs, now, h)
             /\ lastMut' = Mutation("start", durationMs, now, timer',
                                    timer.startedAt, h)
             /\ reply' = Call("start", durationMs, now, 0,
                              timer' # timer \/ timeouts' # timeouts,
                              replyWithTimer("Timer started.", timer', now))
             /\ UNCHANGED now

stop_timer ==
    IF NotRunning(timer)
    THEN /\ UNCHANGED <<timer, now, timeouts, lastMut>>
         /\ reply' = Call("stop", NULL, now, lastMut.fired,
                          timer' # timer \/ timeouts' # timeouts,
                          replyWithTimer("Timer is not running.", timer', now))
    ELSE /\ timeouts' = clearTimeout(timeouts, timer.timeoutRef)
         /\ timer' = StoppedTimer(timer, now)
         /\ lastMut' = Mutation("stop", NULL, now, timer', timer.startedAt, NULL)
         /\ reply' = Call("stop", NULL, now, 0,
                          timer' # timer \/ timeouts' # timeouts,
                          replyWithTimer("Timer stopped.", timer', now))
         /\ UNCHANGED now

edit_timer(minutes, seconds) ==
    LET newDurationMs == ToDurationMs(minutes, seconds)
        cleared == CancelPending(timeouts, timer.timeoutRef)
        h == NewHandle(cleared)
    IN  IF InvalidDuration(newDurationMs)
        THEN /\ UNCHANGED <<timer, now, timeouts, lastMut>>
             /\ reply' = Call("edit", newDurationMs, now, lastMut.fired,
                              timer' # timer \/ timeouts' # timeouts,
                              replyWithTimer("Provide a duration greater than 0.",
                                             timer', now))
        ELSE /\ IF timer.isRunning
                THEN /\ FreeHandles(cleared) # {}
                     /\ timeouts' = setTimeout(cleared, h, newDurationMs, now)
                     /\ timer' = EditedTimer(timer, newDurationMs, now, h)
                     /\ lastMut' = Mutation("edit_running", newDurationMs, now,
                                            timer', timer.startedAt, h)
                ELSE /\ timeouts' = cleared
                     /\ timer' = EditedTimer(timer, newDurationMs, now,
                                             timer.timeoutRef)
                     /\ lastMut' = Mutation("edit_idle", newDurationMs, now,
                                            timer', timer.startedAt, NULL)
             /\ reply' = Call("edit", newDurationMs, now, 0,
                              timer' # timer \/ timeouts' # timeouts,
                              replyWithTimer("Timer updated.", timer', now))
             /\ UNCHANGED now

\* Variant: get stores the remainder it computed.
get_timer_caching ==
    /\ timer' = [timer EXCEPT !.remainingMs = computeRemaining(timer, now)]
    /\ UNCHANGED <<now, timeouts, lastMut>>
    /\ reply' = [Call("get", NULL, now, lastMut.fired,
                      timer' # timer \/ timeouts' # timeouts,
                      replyWithTimer("", timer', now))
                 EXCEPT !.prevGet = IF reply.op = "get"
                                       /\ reply.fired = lastMut.fired
                                    THEN reply.snap ELSE NoSnapshot]

\* The history keeps the snapshot of the previous call when that call was a
\* get() too and no completion has fired since.
get_timer ==
    /\ UNCHANGED <<timer, now, timeouts, lastMut>>
    /\ reply' = [Call("get", NULL, now, lastMut.fired,
                      timer' # timer \/ timeouts' # timeouts,
                      replyWithTimer("", timer', now))
                 EXCEPT !.prevGet = IF reply.op = "get"
                                       /\ reply.fired = lastMut.fired
                                    THEN reply.snap ELSE NoSnapshot]

\* The event loop runs the callback of timeout h, which is due.
Fire(h) ==
    /\ timeouts[h].status = "pending"
    /\ now >= timeouts[h].due
    /\ timeouts' = [timeouts EXCEPT ![h] = Inactive]
    /\ timer' = completion(timer)
    /\ lastMut' = [lastMut EXCEPT
                      !.fired = IF @ < 2 THEN @ + 1 ELSE @,
                      !.stale = @ \/ h # lastMut.handle,
                      !.early = @ \/ now < lastMut.at + lastMut.dur,
                      !.jumped = @ \/ computeRemaining(timer, now) > 0]
    /\ UNCHANGED <<now, reply>>

\* Time passes.
Tick(d) ==
    /\ now + d \in ClockValues
    /\ now' = now + d
    /\ UNCHANGED <<timer, timeouts, reply, lastMut>>

Next ==
    \/ \E a \in Args : start_timer(a[1], a[2])
    \/ stop_timer
    \/ \E a \in Args : edit_timer(a[1], a[2])
    \/ get_timer
    \/ \E h \in Handles : Fire(h)
    \/ \E d \in TickSteps : Tick(d)

Spec == Init /\ [][Next]_vars

\* The event loop does not starve a callback that is due, and the clock does
\* not stand still.
FairSpec ==
    /\ Spec
    /\ WF_vars(\E h \in Handles : Fire(h))
    /\ WF_vars(\E d \in TickSteps : Tick(d))

-----------------------------------------------------------------------------
(* Properties *)

InvalidMessage == "Provide a duration greater than 0."

\* C1: after start(m, s) with d = m*60000 + s*1000 > 0, from an idle or a
\* running timer, the reply is "Timer started." with isRunning and
\* durationMs = remainingMs = d, and a get() issued before any completion has
\* fired and before any other change returns isRunning = true, durationMs = d
\* and d - e <= remainingMs <= d, e being the clock time since the start.
C1_StartThenGet ==
    /\ (reply.op = "start" /\ reply.req > 0) =>
          /\ reply.message = "Timer started."
          /\ reply.snap.isRunning
          /\ reply.snap.durationMs = reply.req
          /\ reply.snap.remainingMs = reply.req
          /\ lastMut.kind = "start" /\ lastMut.req = reply.req
    /\ (reply.op = "get" /\ lastMut.kind = "start" /\ reply.fired = 0) =>
          /\ reply.snap.isRunning
          /\ reply.snap.durationMs = lastMut.req
          /\ reply.snap.remainingMs <= lastMut.req
          /\ reply.snap.remainingMs >= lastMut.req - (reply.at - lastMut.at)
          /\ (reply.at = lastMut.at => reply.snap.remainingMs = lastMut.req)

\* C1 witness: a timer restarted while running, read some time later while
\* it still counts down.
C1_Witness ==
    /\ reply.op = "get" /\ lastMut.kind = "start" /\ reply.fired = 0
    /\ lastMut.prev # NULL
    /\ reply.at > lastMut.at
    /\ reply.snap.remainingMs > 0
    /\ reply.snap.remainingMs < lastMut.dur

\* C2: every completion that fires was scheduled by the most recent
\* successful start or edit, fires no earlier than that call's duration after
\* it, and fires at most once for it.
C2_CompletionBelongsToLatest ==
    lastMut.fired > 0 =>
        /\ ~lastMut.stale
        /\ ~lastMut.early
        /\ lastMut.fired <= 1

\* C3: at most one scheduled completion is live, and a live one is the one
\* timer.timeoutRef refers to.
C3_OneLiveCompletion ==
    /\ Cardinality(Pending(timeouts)) <= 1
    /\ \A h \in Pending(timeouts) : timer.timeoutRef = h

\* C3 witness: a completion is live after a start or edit replaced a running
\* timer's completion.
C3_Witness ==
    /\ Pending(timeouts) # {}
    /\ lastMut.kind \in {"start", "edit_running"}
    /\ lastMut.prev # NULL
    /\ lastMut.prev < lastMut.at

\* C4 as claimed: after a successful start with duration d and no start, stop
\* or edit since, every get() at a clock later than d after the start returns
\* isRunning = false, remainingMs = 0 and remainingSeconds = 0.
C4_GetAfterDurationIdle ==
    (reply.op = "get" /\ lastMut.kind = "start"
        /\ reply.at > lastMut.at + lastMut.req) =>
        /\ ~reply.snap.isRunning
        /\ reply.snap.remainingMs = 0
        /\ reply.snap.remainingSeconds = 0

\* C4 amended: such a get() returns remainingMs = 0 and remainingSeconds = 0,
\* and isRunning = false exactly when the completion callback had run before
\* the get(); until the event loop has run the callback, isRunning is true.
C4_GetAfterDuration ==
    (reply.op = "get" /\ lastMut.kind = "start"
        /\ reply.at > lastMut.at + lastMut.req) =>
        /\ reply.snap.remainingMs = 0
        /\ reply.snap.remainingSeconds = 0
        /\ reply.snap.isRunning = (reply.fired = 0)

\* C4 witness: a get() past the duration, after the completion has fired.
C4_Witness ==
    /\ reply.op = "get" /\ lastMut.kind = "start"
    /\ reply.at > lastMut.at + lastMut.req
    /\ reply.fired = 1
    /\ ~reply.snap.isRunning

\* C5: start or edit with a computed duration <= 0 changes neither the timer
\* (durationMs, remainingMs, startedAt, isRunning, timeoutRef) nor the timer
\* list (a pending completion stays pending with its due time), and replies
\* "Provide a duration greater than 0." with the snapshot of that state.
C5_InvalidDurationUntouched ==
    (reply.op \in {"start", "edit"} /\ reply.req <= 0) =>
        /\ ~reply.changed
        /\ reply.message = InvalidMessage
        /\ (reply.fired = lastMut.fired =>
               reply.snap = Snapshot(timer, reply.at))

\* C5 witness: an invalid start or edit answered while the timer runs with
\* its completion pending.
C5_Witness ==
    /\ reply.op \in {"start", "edit"} /\ reply.req <= 0
    /\ reply.message = InvalidMessage
    /\ timer.isRunning
    /\ Pending(timeouts) = {timer.timeoutRef}
    /\ reply.at > lastMut.at

\* C6: stop() on a running timer at clock `now` sets remainingMs to
\* max(durationMs - (now - startedAt), 0), isRunning to false, startedAt and
\* timeoutRef to null and cancels the pending completion; when it runs before
\* the duration has elapsed its snapshot has isRunning = false and
\* 0 < remainingMs <= durationMs.
C6_StopFreezesRemaining ==
    (reply.op = "stop" /\ reply.wasRunning) =>
        /\ reply.message = "Timer stopped."
        /\ lastMut.kind = "stop" /\ lastMut.at = reply.at
        /\ timer.remainingMs =
               Max(timer.durationMs - (lastMut.at - lastMut.prev), 0)
        /\ ~timer.isRunning
        /\ timer.startedAt = NULL
        /\ timer.timeoutRef = NULL
        /\ Pending(timeouts) = {}
        /\ reply.snap.remainingMs = timer.remainingMs
        /\ ~reply.snap.isRunning
        /\ (lastMut.at - lastMut.prev < timer.durationMs =>
               /\ reply.snap.remainingMs > 0
               /\ reply.snap.remainingMs <= reply.snap.durationMs)

\* C6 witness: a stop part of the way through the countdown.
C6_Witness ==
    /\ reply.op = "stop" /\ reply.wasRunning
    /\ lastMut.at > lastMut.prev
    /\ reply.snap.remainingMs > 0
    /\ reply.snap.remainingMs < reply.snap.durationMs

\* C7: after stop() on a running timer and until the next successful start
\* or edit, no completion is pending and none fires, the timer stays idle,
\* and the stored remainingMs and the remainingMs of every get() are the
\* value stop computed.
C7_StoppedStaysStopped ==
    lastMut.kind = "stop" =>
        /\ Pending(timeouts) = {}
        /\ lastMut.fired = 0
        /\ ~timer.isRunning
        /\ timer.remainingMs = lastMut.rem
        /\ (reply.op = "get" =>
               /\ reply.snap.remainingMs = lastMut.rem
               /\ ~reply.snap.isRunning)

\* C7 witness: a get() after a stop, at or past the time the cancelled
\* completion was due, still reporting the positive remainder.
C7_Witness ==
    /\ lastMut.kind = "stop" /\ reply.op = "get"
    /\ lastMut.rem > 0
    /\ reply.at >= lastMut.at + lastMut.rem
    /\ reply.snap.remainingMs = lastMut.rem

\* C8: stop() on an idle timer changes no field of the timer and nothing in
\* the timer list, and replies "Timer is not running." with the snapshot of
\* that unchanged state.
C8_IdleStopNoop ==
    (reply.op = "stop" /\ ~reply.wasRunning) =>
        /\ reply.message = "Timer is not running."
        /\ ~reply.changed
        /\ ~reply.snap.isRunning
        /\ (reply.fired = lastMut.fired =>
               reply.snap = Snapshot(timer, reply.at))

\* C8 witness: an idle stop on a timer that holds a stopped remainder.
C8_Witness ==
    /\ reply.op = "stop" /\ ~reply.wasRunning
    /\ lastMut.kind = "stop"
    /\ reply.at > lastMut.at
    /\ timer.remainingMs > 0

\* C9: edit(m, s) with n = m*60000 + s*1000 > 0 on a running timer leaves it
\* running with durationMs = n and startedAt = the clock of the edit, the old
\* completion cancelled and one new completion due n after the edit, and a
\* get() at the clock of the edit reports remainingMs = n.
C9_EditRunningRestarts ==
    /\ (reply.op = "edit" /\ reply.req > 0 /\ reply.wasRunning) =>
          /\ lastMut.kind = "edit_running"
          /\ lastMut.at = reply.at
          /\ lastMut.req = reply.req
    /\ (lastMut.kind = "edit_running" /\ lastMut.fired = 0) =>
          /\ timer.isRunning
          /\ timer.durationMs = lastMut.req
          /\ timer.startedAt = lastMut.at
          /\ Pending(timeouts) = {timer.timeoutRef}
          /\ timeouts[timer.timeoutRef].due = lastMut.at + lastMut.req
          /\ (reply.op \in {"edit", "get"} /\ reply.at = lastMut.at =>
                 /\ reply.snap.isRunning
                 /\ reply.snap.remainingMs = lastMut.req)

\* C10: edit(m, s) with n > 0 on an idle timer leaves it idle with startedAt
\* and timeoutRef null, nothing scheduled and durationMs = remainingMs = n;
\* until the next successful start nothing fires, the timer does not run,
\* and every get() returns remainingMs = n.
C10_EditIdleStaysIdle ==
    /\ (reply.op = "edit" /\ reply.req > 0 /\ ~reply.wasRunning) =>
          /\ lastMut.kind = "edit_idle"
          /\ lastMut.at = reply.at
          /\ lastMut.req = reply.req
    /\ lastMut.kind = "edit_idle" =>
          /\ ~timer.isRunning
          /\ timer.startedAt = NULL
          /\ timer.timeoutRef = NULL
          /\ Pending(timeouts) = {}
          /\ lastMut.fired = 0
          /\ timer.durationMs = lastMut.req
          /\ timer.remainingMs = lastMut.req
          /\ (reply.op \in {"edit", "get"} =>
                 /\ ~reply.snap.isRunning
                 /\ reply.snap.durationMs = lastMut.req
                 /\ reply.snap.remainingMs = lastMut.req)

\* C10 witness: a get() more than n after an idle edit to n.
C10_Witness ==
    /\ lastMut.kind = "edit_idle" /\ reply.op = "get"
    /\ reply.at > lastMut.at + lastMut.req
    /\ reply.snap.remainingMs = lastMut.req

\* C11: get() is a pure read: it changes no field of the timer and neither
\* schedules nor cancels a completion, and replies with the snapshot of the
\* state it found and no message; right after a completion has fired it
\* reports isRunning = false and remainingMs = 0.
C11_GetIsPureRead ==
    reply.op = "get" =>
        /\ ~reply.changed
        /\ reply.message = ""
        /\ (reply.fired = lastMut.fired =>
               reply.snap = Snapshot(timer, reply.at))
        /\ (reply.fired >= 1 =>
               /\ ~reply.snap.isRunning
               /\ reply.snap.remainingMs = 0)

\* C11 witness: a get() handled after the completion has fired.
C11_Witness ==
    /\ reply.op = "get"
    /\ reply.fired = 1
    /\ lastMut.fired = 1
    /\ reply.snap.remainingMs = 0
    /\ reply.snap.durationMs > 0

\* C13: whenever isRunning is true, startedAt is present and timeoutRef refers
\* to a completion that is scheduled.
C13_RunningHasStartAndCompletion ==
    timer.isRunning =>
        /\ timer.startedAt # NULL
        /\ timer.timeoutRef \in Handles
        /\ timeouts[timer.timeoutRef].status = "pending"

\* C13 witness: a timer kept running by an edit, some time after the edit.
C13_Witness ==
    /\ timer.isRunning
    /\ lastMut.kind = "edit_running"
    /\ now > lastMut.at

\* C14: whenever isRunning is false, startedAt is absent, no completion is
\* pending and timeoutRef is null.
C14_IdleHasNoStartNoCompletion ==
    ~timer.isRunning =>
        /\ timer.startedAt = NULL
        /\ timer.timeoutRef = NULL
        /\ Pending(timeouts) = {}

\* C14 witness: the timer is idle because its completion has fired.
C14_Witness ==
    /\ ~timer.isRunning
    /\ lastMut.kind \in {"start", "edit_running"}
    /\ lastMut.fired = 1

\* The remainder C15 states, for timer t read at clock n.
C15_StatedRemaining(t, n) ==
    IF t.isRunning THEN Max(t.durationMs - (n - t.startedAt), 0)
    ELSE t.remainingMs

\* s is the ceiling of q quanta in seconds: the least s with q <= s seconds.
C15_IsCeiling(s, q) ==
    /\ q <= s * MsPerSecond
    /\ q > (s - 1) * MsPerSecond

\* C15: in every reachable state and for every clock value, the snapshot's
\* remainingMs is the stored remainingMs when the timer is not running and
\* max(durationMs - (now - startedAt), 0) when it is, remainingSeconds is the
\* ceiling of remainingMs / 1000 (0 exactly when remainingMs is 0), and
\* isRunning and durationMs are those of the state.
C15_SnapshotFormula ==
    \A n \in ClockValues :
        LET snap == replyWithTimer("", timer, n).snap
        IN  /\ snap.remainingMs = C15_StatedRemaining(timer, n)
            /\ C15_IsCeiling(snap.remainingSeconds, snap.remainingMs)
            /\ (snap.remainingSeconds = 0) = (snap.remainingMs = 0)
            /\ snap.isRunning = timer.isRunning
            /\ snap.durationMs = timer.durationMs

\* C15 witness: a running timer read half a second before its end, so that
\* the seconds are rounded up.
C15_Witness ==
    /\ reply.op = "get"
    /\ reply.snap.isRunning
    /\ reply.snap.remainingMs = 1
    /\ reply.snap.remainingSeconds = 1
    /\ timer.isRunning

\* C16: the stored durationMs and remainingMs are >= 0, and so are the
\* remainingMs and remainingSeconds of every snapshot, whenever it is taken.
C16_NonNegative ==
    /\ timer.durationMs >= 0
    /\ timer.remainingMs >= 0
    /\ reply.snap.remainingMs >= 0
    /\ reply.snap.remainingSeconds >= 0
    /\ \A n \in ClockValues :
          n >= now =>
            /\ Snapshot(timer, n).remainingMs >= 0
            /\ Snapshot(timer, n).remainingSeconds >= 0

\* C16 witness: a stop after the duration has elapsed and before the
\* completion has run, where the elapsed time exceeds the duration.
C16_Witness ==
    /\ reply.op = "stop" /\ reply.wasRunning
    /\ lastMut.kind = "stop"
    /\ lastMut.at - lastMut.prev > timer.durationMs
    /\ timer.remainingMs = 0

\* C19: at every clock value not earlier than startedAt the snapshot has
\* remainingMs <= durationMs; so do the value stop froze and the value an
\* idle edit loaded.
C19_RemainingWithinDuration ==
    /\ timer.remainingMs <= timer.durationMs
    /\ reply.snap.remainingMs <= reply.snap.durationMs
    /\ \A n \in ClockValues :
          n >= now => Snapshot(timer, n).remainingMs <= timer.durationMs

\* C19 witness: a remainder frozen by a stop part of the way through, read
\* by a get() later on.
C19_Witness ==
    /\ lastMut.kind = "stop"
    /\ reply.op = "get"
    /\ reply.at > lastMut.at
    /\ reply.snap.remainingMs > 0
    /\ reply.snap.remainingMs < reply.snap.durationMs

\* The timer as the last call that changed it left it, rebuilt from the
\* history record m of that call.
C18_TimerLeftBy(m) ==
    IF m.kind = "init" THEN InitTimer
    ELSE IF m.kind \in {"start", "edit_running"}
    THEN [durationMs |-> m.dur, remainingMs |-> m.rem, startedAt |-> m.at,
          isRunning |-> TRUE, timeoutRef |-> m.handle]
    ELSE [durationMs |-> m.dur, remainingMs |-> m.rem, startedAt |-> NULL,
          isRunning |-> FALSE, timeoutRef |-> NULL]

\* C18 as stated: the timer is written by the four operations only, so at
\* every moment it is exactly as the last operation that changed it left it.
C18_OnlyTheFourOperationsWrite ==
    timer = C18_TimerLeftBy(lastMut)

\* C18: the timer is written only by start, stop and edit and by the
\* completion callback a start or a running edit scheduled; get() never
\* writes it. Until that callback runs the timer is exactly as the last
\* operation that changed it left it; the callback runs at most once after
\* that operation and changes isRunning, remainingMs, startedAt and
\* timeoutRef only.
C18_WritersAreOperationsAndCompletion ==
    /\ lastMut.fired = 0 => timer = C18_TimerLeftBy(lastMut)
    /\ lastMut.fired > 0 =>
          /\ lastMut.kind \in {"start", "edit_running"}
          /\ lastMut.fired = 1
          /\ timer = [C18_TimerLeftBy(lastMut) EXCEPT
                         !.isRunning = FALSE, !.remainingMs = 0,
                         !.startedAt = NULL, !.timeoutRef = NULL]
    /\ reply.op = "get" => ~reply.changed

\* C18 witness: the callback has written the timer since the last call, and
\* the last call was a get() that found it still running.
C18_Witness ==
    /\ lastMut.fired = 1
    /\ timer # C18_TimerLeftBy(lastMut)
    /\ reply.op = "get" /\ reply.fired = 0
    /\ reply.snap.isRunning

\* C12: of two consecutive get() calls with no start, stop or edit and no
\* completion firing between them, the second reports the same durationMs and
\* isRunning as the first and a remainingMs not greater than the first's.
C12_ConsecutiveGets ==
    (reply.op = "get" /\ reply.prevGet # NoSnapshot) =>
        /\ reply.snap.durationMs = reply.prevGet.durationMs
        /\ reply.snap.isRunning = reply.prevGet.isRunning
        /\ reply.snap.remainingMs <= reply.prevGet.remainingMs

\* C12 witness: two consecutive reads of a running timer, the second reading
\* less than the first and more than 0.
C12_Witness ==
    /\ reply.op = "get" /\ reply.prevGet # NoSnapshot
    /\ reply.snap.isRunning
    /\ reply.snap.remainingMs > 0
    /\ reply.snap.remainingMs < reply.prevGet.remainingMs

\* C20, first part: durationMs changes only on a successful start or edit;
\* a stop, a completion firing, a get() and a rejected call leave it as it
\* was.
C20_DurationFrame ==
    /\ timer.durationMs = lastMut.dur
    /\ lastMut.kind = "stop" => lastMut.dur = lastMut.durBefore
    /\ lastMut.kind \in {"start", "edit_running", "edit_idle"} =>
          lastMut.dur = lastMut.req /\ lastMut.req > 0
    /\ (reply.op = "get" \/ reply.message = InvalidMessage
        \/ (reply.op = "stop" /\ ~reply.wasRunning)) => ~reply.changed

\* C20, second part: across a stop the remainder does not grow: the stopped
\* timer reports what was computed when the stop arrived, from then on.
C20_StopDoesNotGrow ==
    lastMut.kind = "stop" =>
        /\ lastMut.rem <= lastMut.remBefore
        /\ \A n \in ClockValues :
              n >= now => Snapshot(timer, n).remainingMs <= lastMut.remBefore

\* C20, third part: a completion fires only once the computed remainder has
\* reached 0, so that the 0 it stores is no jump.
C20_FiringDoesNotJump ==
    /\ ~lastMut.jumped
    /\ lastMut.fired > 0 => Snapshot(timer, now).remainingMs = 0

\* C20: durationMs changes only on a successful start or edit, and across a
\* stop or a completion firing the reported remainingMs never increases and
\* never jumps, a completion firing only when the computed remainder is 0.
C20_DurationAndRemainingFrame ==
    /\ C20_DurationFrame
    /\ C20_StopDoesNotGrow
    /\ C20_FiringDoesNotJump

\* The last clock value of the model.
C17_Horizon == CHOOSE c \in ClockValues : \A d \in ClockValues : d <= c

\* The timer is running on a timeout that falls due within the clock values
\* of the model.
C17_RunningAndDue ==
    /\ timer.isRunning
    /\ lastMut.kind \in {"start", "edit_running"}
    /\ lastMut.at + TimeoutDelay(lastMut.req) <= C17_Horizon

\* After a start or a running edit and until the next start, stop or edit,
\* the timer stops running by its completion alone, which fires once and
\* leaves it idle with remainingMs = 0, no startedAt and no handle.
C17_FiredOnceAndIdle ==
    lastMut.kind \in {"start", "edit_running"} =>
        /\ timer.isRunning <=> lastMut.fired = 0
        /\ lastMut.fired > 0 =>
              /\ lastMut.fired = 1
              /\ ~timer.isRunning
              /\ timer.remainingMs = 0
              /\ timer.startedAt = NULL
              /\ timer.timeoutRef = NULL
              /\ Pending(timeouts) = {}

\* C17: under a fair event loop a running timer does not run for ever: unless
\* a further start, stop or edit takes its place, its completion eventually
\* fires, exactly once, and leaves the timer idle with isRunning = false,
\* remainingMs = 0, startedAt absent and the handle cleared.
C17_CompletionEventuallyFires ==
    /\ []C17_FiredOnceAndIdle
    /\ C17_RunningAndDue ~> ~C17_RunningAndDue

\* C17 witness: the completion of a timer kept running by an edit has fired,
\* no earlier than the edited duration after the edit.
C17_Witness ==
    /\ lastMut.kind = "edit_running"
    /\ lastMut.fired = 1
    /\ ~timer.isRunning
    /\ now >= lastMut.at + lastMut.req

====
